---- MODULE Spec2Model ----
(***************************************************************************)
(* MetalTypes.h: four plain C structures shared between CPU and GPU code.  *)
(* The model is a byte-addressed buffer holding two objects, a (index 0)   *)
(* and b (index 1), of one of the four structure types, laid out by the C  *)
(* rules for the declarations of the header, and the operations the C      *)
(* language gives a structure: aggregate initialisation, member            *)
(* assignment, member read and structure assignment.                       *)
(***************************************************************************)
EXTENDS Integers, Sequences, FiniteSets, TLC

VARIABLES
    T,      \* the structure type of the objects in the buffer
    widen,  \* the build stores a vector_float3 as a full 16-byte vector
    mem     \* the buffer: byte address -> byte

----------------------------------------------------------------------------
(* Bounds of the model *)

\* how many of FloatVals the operations draw scalar inputs from
NumFloats == 1
\* how many of VecVals the operations draw vector inputs from
NumVecs == 2

----------------------------------------------------------------------------
(* float: IEEE-754 binary32, as <<sign, biased exponent, mantissa>> *)

Float(s, e, m) == [sign |-> s, exp |-> e, man |-> m]

FZero    == Float(0, 0, 0)          \*  0.0   0x00000000
FNegZero == Float(1, 0, 0)          \* -0.0   0x80000000
FHalf    == Float(0, 126, 0)        \*  0.5   0x3F000000
FOne     == Float(0, 127, 0)        \*  1.0   0x3F800000
FNegOne  == Float(1, 127, 0)        \* -1.0   0xBF800000
FTwo     == Float(0, 128, 0)        \*  2.0   0x40000000
FNaN     == Float(0, 255, 4194304)  \*  NaN   0x7FC00000
FGarbage == Float(1, 255, 8388607)  \*        0xFFFFFFFF

FloatVals == <<FNegOne, FTwo, FNaN, FZero, FOne, FNegZero, FHalf>>
VZero == <<FZero, FZero, FZero>>
VOne  == <<FOne, FOne, FOne>>
VecVals   == << VZero, VOne,
                <<FNaN, FNegZero, FHalf>>, <<FNegOne, FTwo, FZero>> >>

Floats == {FloatVals[i] : i \in 1..NumFloats}
Vecs   == {VecVals[i] : i \in 1..NumVecs}

\* the object representation of a float: four bytes, little-endian
EncodeFloat(v) ==
    << v.man % 256,
       (v.man \div 256) % 256,
       (v.exp % 2) * 128 + (v.man \div 65536),
       v.sign * 128 + (v.exp \div 2) >>

\* the same with the sign bit dropped
DecodeFloat_Lossy(b) ==
    Float(0,
          (b[4] % 128) * 2 + (b[3] \div 128),
          (b[3] % 128) * 65536 + b[2] * 256 + b[1])

DecodeFloat(b) ==
    Float(b[4] \div 128,
          (b[4] % 128) * 2 + (b[3] \div 128),
          (b[3] % 128) * 65536 + b[2] * 256 + b[1])

----------------------------------------------------------------------------
(* The declarations of the header *)

Field(n, t) == [name |-> n, type |-> t]

\* the same with normal declared before position
MeshVertex_Reordered ==
    << Field("normal", "vector_float3"),
       Field("position", "vector_float3"),
       Field("confidence", "float") >>

MeshVertex ==
    << Field("position", "vector_float3"),
       Field("normal", "vector_float3"),
       Field("confidence", "float") >>

\* the same with max declared before min
BoundingBox_Swapped ==
    << Field("max", "vector_float3"),
       Field("min", "vector_float3") >>

BoundingBox ==
    << Field("min", "vector_float3"),
       Field("max", "vector_float3") >>

QualityMetrics ==
    << Field("pointDensity", "float"),
       Field("surfaceCompleteness", "float"),
       Field("noiseLevel", "float"),
       Field("featurePreservation", "float") >>

ProcessingParameters ==
    << Field("spatialSigma", "float"),
       Field("rangeSigma", "float"),
       Field("confidenceThreshold", "float"),
       Field("featureWeight", "float") >>

TypeNames == {"MeshVertex", "BoundingBox", "QualityMetrics", "ProcessingParameters"}

Decl(t) ==
    CASE t = "MeshVertex"           -> MeshVertex
      [] t = "BoundingBox"          -> BoundingBox
      [] t = "QualityMetrics"       -> QualityMetrics
      [] t = "ProcessingParameters" -> ProcessingParameters

FieldNames(t) == {Decl(t)[i].name : i \in 1..Len(Decl(t))}
FieldIndex(t, f) == CHOOSE i \in 1..Len(Decl(t)) : Decl(t)[i].name = f
FieldType(t, f) == Decl(t)[FieldIndex(t, f)].type
VecFields(t) == {f \in FieldNames(t) : FieldType(t, f) = "vector_float3"}
FloatFields(t) == {f \in FieldNames(t) : FieldType(t, f) = "float"}

----------------------------------------------------------------------------
(* Layout: size and alignment of the member types come from <simd/simd.h>  *)
(* (vector_float3 is a 16-byte, 16-byte-aligned vector of which three      *)
(* lanes are used); members are placed in declaration order, each at the   *)
(* next multiple of its alignment, and the size of a structure is rounded  *)
(* up to its alignment.                                                    *)

\* the same with the vector packed (packed_float3: 12 bytes, 4-byte aligned)
SimdType_Packed(ty) ==
    CASE ty = "float"         -> [size |-> 4, align |-> 4]
      [] ty = "vector_float3" -> [size |-> 12, align |-> 4]

SimdType(ty) ==
    CASE ty = "float"         -> [size |-> 4, align |-> 4]
      [] ty = "vector_float3" -> [size |-> 16, align |-> 16]

SizeOfType(ty) == SimdType(ty).size
AlignOfType(ty) == SimdType(ty).align

AlignUp(n, a) == ((n + a - 1) \div a) * a

\* the same with every member placed right after the used bytes of the one
\* before it
RECURSIVE OffsetAt_Packed(_, _)
OffsetAt_Packed(t, i) ==
    IF i = 1 THEN 0
    ELSE OffsetAt_Packed(t, i - 1)
         + (IF Decl(t)[i - 1].type = "float" THEN 4 ELSE 12)

RECURSIVE OffsetAt(_, _)
OffsetAt(t, i) ==
    IF i = 1 THEN 0
    ELSE AlignUp(OffsetAt(t, i - 1) + SizeOfType(Decl(t)[i - 1].type),
                 AlignOfType(Decl(t)[i].type))

\* the same with the members sharing their storage (a union)
OffsetOf_Union(t, f) == 0

OffsetOf(t, f) == OffsetAt(t, FieldIndex(t, f))

AlignOf(t) ==
    CHOOSE a \in {AlignOfType(Decl(t)[i].type) : i \in 1..Len(Decl(t))} :
        \A i \in 1..Len(Decl(t)) : AlignOfType(Decl(t)[i].type) <= a

\* the same without the rounding up to the alignment
SizeOf_Unrounded(t) ==
    OffsetAt(t, Len(Decl(t))) + SizeOfType(Decl(t)[Len(Decl(t))].type)

SizeOf(t) ==
    AlignUp(OffsetAt(t, Len(Decl(t))) + SizeOfType(Decl(t)[Len(Decl(t))].type),
            AlignOf(t))

\* the layout of the four structures, computed once
Layout ==
    [t \in TypeNames |->
        [size   |-> SizeOf(t),
         align  |-> AlignOf(t),
         offset |-> [f \in FieldNames(t) |-> OffsetOf(t, f)],
         type   |-> [f \in FieldNames(t) |-> FieldType(t, f)]]]

\* the two objects, a and b, are elements 0 and 1 of one contiguous buffer
Elems == {0, 1}

\* the same with b naming the storage of a (a reference, not a value)
ElemBase_Shared(t, e) == 0

ElemBase(t, e) == e * Layout[t].size
FieldAddr(t, e, f) == ElemBase(t, e) + Layout[t].offset[f]
BufferSize(t) == Cardinality(Elems) * Layout[t].size

----------------------------------------------------------------------------
(* Loads and stores *)

ReadBytes(m, addr, n) == [i \in 1..n |-> m[addr + i - 1]]

WriteBytes(m, addr, bs) ==
    [a \in DOMAIN m |->
        IF a >= addr /\ a < addr + Len(bs) THEN bs[a - addr + 1] ELSE m[a]]

LoadFloat(m, addr) ==
    DecodeFloat(<<m[addr], m[addr + 1], m[addr + 2], m[addr + 3]>>)
StoreFloat(m, addr, v) ==
    LET b == EncodeFloat(v)
    IN  [m EXCEPT ![addr] = b[1], ![addr + 1] = b[2],
                  ![addr + 2] = b[3], ![addr + 3] = b[4]]

LoadVec(m, addr) ==
    <<LoadFloat(m, addr), LoadFloat(m, addr + 4), LoadFloat(m, addr + 8)>>

\* A vector_float3 store writes the three lanes; a build that widens it to a
\* full 16-byte store also writes the fourth lane, with an undefined value:
\* lane = <<>> (not written) or <<p>> (written with p).
PadLanes == {FGarbage}
LaneChoices(w) == IF w THEN {<<p>> : p \in PadLanes} ELSE {<<>>}

StoreVec(m, addr, v, lane) ==
    LET m3 == StoreFloat(StoreFloat(StoreFloat(m, addr, v[1]), addr + 4, v[2]),
                         addr + 8, v[3])
    IN  IF lane = <<>> THEN m3 ELSE StoreFloat(m3, addr + 12, lane[1])

\* x.f
ReadField(m, t, e, f) ==
    IF Layout[t].type[f] = "float"
    THEN LoadFloat(m, FieldAddr(t, e, f))
    ELSE LoadVec(m, FieldAddr(t, e, f))

\* the same with a negative float clamped to zero
WriteField_Clamped(m, t, e, f, v, lane) ==
    IF Layout[t].type[f] = "float"
    THEN StoreFloat(m, FieldAddr(t, e, f), IF v.sign = 1 THEN FZero ELSE v)
    ELSE StoreVec(m, FieldAddr(t, e, f), v, lane)

\* x.f = v
WriteField(m, t, e, f, v, lane) ==
    IF Layout[t].type[f] = "float"
    THEN StoreFloat(m, FieldAddr(t, e, f), v)
    ELSE StoreVec(m, FieldAddr(t, e, f), v, lane)

\* the members of x in declaration order
ReadFields(m, t, e) == [i \in 1..Len(Decl(t)) |-> ReadField(m, t, e, Decl(t)[i].name)]

\* members 1..i of x assigned from vals, in declaration order
RECURSIVE WriteFields(_, _, _, _, _, _)
WriteFields(m, t, e, vals, lane, i) ==
    IF i = 0 THEN m
    ELSE WriteField(WriteFields(m, t, e, vals, lane, i - 1),
                    t, e, Decl(t)[i].name, vals[i], lane)

\* the bits of the members of x (the used lanes of a vector), without decoding
FieldBits(m, t, e, f) ==
    ReadBytes(m, FieldAddr(t, e, f), IF Layout[t].type[f] = "float" THEN 4 ELSE 12)

AllFieldBits(m, t, e) == [i \in 1..Len(Decl(t)) |-> FieldBits(m, t, e, Decl(t)[i].name)]

----------------------------------------------------------------------------
(* Inputs *)

ValuesOf(ty) == IF ty = "float" THEN Floats ELSE Vecs

\* the initialiser lists for the first i members of t
RECURSIVE Inits(_, _)
Inits(t, i) ==
    IF i = 0 THEN {<<>>}
    ELSE {Append(s, v) : s \in Inits(t, i - 1), v \in ValuesOf(Decl(t)[i].type)}

\* storage before initialisation holds arbitrary bytes
FillBytes == {170}

----------------------------------------------------------------------------
(* Serialised form: the float values of the members in declaration order, *)
(* each as its four bytes, packed (a vector gives its three lanes).        *)

SerializeValue(ty, v) ==
    IF ty = "float" THEN EncodeFloat(v)
    ELSE EncodeFloat(v[1]) \o EncodeFloat(v[2]) \o EncodeFloat(v[3])

PackedSize(ty) == IF ty = "float" THEN 4 ELSE 12

RECURSIVE SerializeFrom(_, _, _, _)
SerializeFrom(m, t, e, i) ==
    IF i > Len(Decl(t)) THEN <<>>
    ELSE SerializeValue(Decl(t)[i].type, ReadField(m, t, e, Decl(t)[i].name))
         \o SerializeFrom(m, t, e, i + 1)

Serialize(m, t, e) == SerializeFrom(m, t, e, 1)

DeserializeValue(ty, bs, pos) ==
    IF ty = "float" THEN DecodeFloat(SubSeq(bs, pos, pos + 3))
    ELSE << DecodeFloat(SubSeq(bs, pos, pos + 3)),
            DecodeFloat(SubSeq(bs, pos + 4, pos + 7)),
            DecodeFloat(SubSeq(bs, pos + 8, pos + 11)) >>

RECURSIVE DeserializeFrom(_, _, _, _)
DeserializeFrom(bs, t, i, pos) ==
    IF i > Len(Decl(t)) THEN <<>>
    ELSE <<DeserializeValue(Decl(t)[i].type, bs, pos)>>
         \o DeserializeFrom(bs, t, i + 1, pos + PackedSize(Decl(t)[i].type))

Reconstruct(m, t, e, bs, lane) ==
    WriteFields(m, t, e, DeserializeFrom(bs, t, 1, 1), lane, Len(Decl(t)))

----------------------------------------------------------------------------
(* The operations on a buffer m of objects of type t *)

\* T x = { vals[1], vals[2], ... }: the members take the initialisers in
\* declaration order; nothing else is written
ConstructMem(m, t, e, vals, lane) ==
    WriteFields(m, t, e, vals, lane, Len(Decl(t)))

\* b = a: the members are copied one by one, or the whole object with its
\* padding
CopyMem(m, t, src, dst, whole, lane) ==
    IF whole
    THEN WriteBytes(m, ElemBase(t, dst), ReadBytes(m, ElemBase(t, src), Layout[t].size))
    ELSE WriteFields(m, t, dst, ReadFields(m, t, src), lane, Len(Decl(t)))

\* dst reconstructed from the serialised form of src
RoundTripMem(m, t, src, dst, lane) ==
    Reconstruct(m, t, dst, Serialize(m, t, src), lane)

----------------------------------------------------------------------------
(* State machine *)

vars == <<T, widen, mem>>

Init ==
    /\ T \in TypeNames
    /\ widen \in (IF VecFields(T) = {} THEN {FALSE} ELSE BOOLEAN)
    /\ \E fill \in FillBytes : mem = [a \in 0..(BufferSize(T) - 1) |-> fill]

Construct(e, vals, lane) ==
    /\ mem' = ConstructMem(mem, T, e, vals, lane)
    /\ UNCHANGED <<T, widen>>

\* x.f = v: no check of v
AssignField(e, f, v, lane) ==
    /\ mem' = WriteField(mem, T, e, f, v, lane)
    /\ UNCHANGED <<T, widen>>

Copy(src, dst, whole, lane) ==
    /\ src # dst
    /\ mem' = CopyMem(mem, T, src, dst, whole, lane)
    /\ UNCHANGED <<T, widen>>

RoundTrip(src, dst, lane) ==
    /\ mem' = RoundTripMem(mem, T, src, dst, lane)
    /\ UNCHANGED <<T, widen>>

Next ==
    \/ \E e \in Elems, vals \in Inits(T, Len(Decl(T))), lane \in LaneChoices(widen) :
          Construct(e, vals, lane)
    \/ \E e \in Elems, f \in FieldNames(T), lane \in LaneChoices(widen) :
          \E v \in ValuesOf(FieldType(T, f)) : AssignField(e, f, v, lane)
    \/ \E src \in Elems, dst \in Elems, whole \in BOOLEAN, lane \in LaneChoices(widen) :
          Copy(src, dst, whole, lane)
    \/ \E src \in Elems, dst \in Elems, lane \in LaneChoices(widen) :
          RoundTrip(src, dst, lane)

Spec == Init /\ [][Next]_vars

----------------------------------------------------------------------------
(* Properties *)

Lanes == LaneChoices(widen)
NFields == Len(Decl(T))

\* comparison of floats: NaN compares false, the two zeros are equal
IsNaN(v) == v.exp = 255 /\ v.man # 0
Key(v) == IF v.sign = 0 THEN v.exp * 8388608 + v.man
                        ELSE 0 - (v.exp * 8388608 + v.man)
FloatLE(x, y) == ~IsNaN(x) /\ ~IsNaN(y) /\ Key(x) <= Key(y)
FloatLT(x, y) == ~IsNaN(x) /\ ~IsNaN(y) /\ Key(x) < Key(y)
VecLE(a, b) == \A c \in 1..3 : FloatLE(a[c], b[c])

\* the data-model table of the specification
SemanticType(ty) ==
    CASE ty = "float"         -> "float"
      [] ty = "vector_float3" -> "3-component float vector"

SpecTable ==
    [MeshVertex |->
        << <<"position", "3-component float vector">>,
           <<"normal", "3-component float vector">>,
           <<"confidence", "float">> >>,
     BoundingBox |->
        << <<"min", "3-component float vector">>,
           <<"max", "3-component float vector">> >>,
     QualityMetrics |->
        << <<"pointDensity", "float">>,
           <<"surfaceCompleteness", "float">>,
           <<"noiseLevel", "float">>,
           <<"featurePreservation", "float">> >>,
     ProcessingParameters |->
        << <<"spatialSigma", "float">>,
           <<"rangeSigma", "float">>,
           <<"confidenceThreshold", "float">>,
           <<"featureWeight", "float">> >>]

\* the expected ranges of the data-model table
InExpectedRange(f, v) ==
    CASE f \in {"confidence", "surfaceCompleteness", "featurePreservation",
                "confidenceThreshold"} -> FloatLE(FZero, v) /\ FloatLE(v, FOne)
      [] f \in {"spatialSigma", "rangeSigma"} -> FloatLT(FZero, v)
      [] f \in {"pointDensity", "noiseLevel", "featureWeight"} -> FloatLE(FZero, v)

\* C1: the structure has exactly the members of the data-model table, in that
\* order and with those types, and an object of it reads as one value per
\* member of the table, no more and no fewer.
C1_FieldsMatchTable ==
    /\ [i \in 1..NFields |-> <<Decl(T)[i].name, SemanticType(Decl(T)[i].type)>>]
          = SpecTable[T]
    /\ \A e \in Elems :
          /\ DOMAIN ReadFields(mem, T, e) = 1..Len(SpecTable[T])
          /\ \A i \in 1..Len(SpecTable[T]) :
                ReadFields(mem, T, e)[i] = ReadField(mem, T, e, SpecTable[T][i][1])

C1_Witness ==
    /\ T = "MeshVertex"
    /\ ReadFields(mem, T, 0) = <<VZero, VOne, FNegOne>>

\* C2: with the vector 16 bytes wide and 16-byte aligned, BoundingBox is 32
\* bytes with min at offset 0 and max at offset 16, every vector member of
\* every structure is at a multiple of 16, and the two all-float structures
\* are 16 bytes with their floats at 0, 4, 8, 12.
C2_Layout ==
    /\ T = "BoundingBox" =>
          /\ Layout[T].size = 32
          /\ Layout[T].offset["min"] = 0
          /\ Layout[T].offset["max"] = 16
          /\ ReadField(mem, T, 0, "min") = LoadVec(mem, 0)
          /\ ReadField(mem, T, 0, "max") = LoadVec(mem, 16)
    /\ \A f \in VecFields(T) : Layout[T].offset[f] % 16 = 0
    /\ T \in {"QualityMetrics", "ProcessingParameters"} =>
          /\ Layout[T].size = 16
          /\ \A i \in 1..NFields :
                /\ Layout[T].offset[Decl(T)[i].name] = 4 * (i - 1)
                /\ ReadField(mem, T, 0, Decl(T)[i].name) = LoadFloat(mem, 4 * (i - 1))

C2_Witness ==
    /\ T = "BoundingBox"
    /\ LoadVec(mem, 0) = VOne
    /\ LoadVec(mem, 16) = VZero

C4_BoundingBoxReads ==
    T = "BoundingBox" =>
        \A e \in Elems, lane \in Lanes :
            /\ \A vals \in Inits(T, NFields) :
                  LET m == ConstructMem(mem, T, e, vals, lane)
                  IN  \A c \in 1..3 :
                         /\ ReadField(m, T, e, "min")[c] = vals[1][c]
                         /\ ReadField(m, T, e, "max")[c] = vals[2][c]
            /\ LET m == ConstructMem(mem, T, e, <<VZero, VOne>>, lane)
               IN  /\ ReadField(m, T, e, "min")[1] = FZero
                   /\ ReadField(m, T, e, "max")[1] = FOne

C4_Witness ==
    /\ T = "BoundingBox"
    /\ ReadField(mem, T, 1, "min") = VZero
    /\ ReadField(mem, T, 1, "max") = VOne

\* C5 as stated: in every reachable state each component of min is less than
\* or equal to the same component of max.
C5_MinLeMax ==
    T = "BoundingBox" =>
        \A e \in Elems :
            VecLE(ReadField(mem, T, e, "min"), ReadField(mem, T, e, "max"))

\* C5 amended: the structure does not enforce the order; a BoundingBox built
\* from (a, b) has min <= max in every component exactly when a <= b in
\* every component.
C5_MinLeMaxAsConstructed ==
    T = "BoundingBox" =>
        \A e \in Elems, vals \in Inits(T, NFields), lane \in Lanes :
            LET m == ConstructMem(mem, T, e, vals, lane)
            IN  VecLE(ReadField(m, T, e, "min"), ReadField(m, T, e, "max"))
                   <=> VecLE(vals[1], vals[2])

C5_Witness ==
    /\ T = "BoundingBox"
    /\ ReadField(mem, T, 0, "min") = VOne
    /\ ReadField(mem, T, 0, "max") = VZero
    /\ ~VecLE(ReadField(mem, T, 0, "min"), ReadField(mem, T, 0, "max"))

\* C6: a value outside the expected range of a float member can always be
\* stored, and the member then reads as exactly that value, bit for bit.
C6_NoValidation ==
    \A e \in Elems, f \in FloatFields(T), v \in Floats :
        ~InExpectedRange(f, v) =>
            /\ ENABLED AssignField(e, f, v, <<>>)
            /\ LET m == WriteField(mem, T, e, f, v, <<>>)
               IN  /\ ReadField(m, T, e, f) = v
                   /\ FieldBits(m, T, e, f) = EncodeFloat(v)

C6_Witness ==
    /\ T = "ProcessingParameters"
    /\ ReadField(mem, T, 0, "spatialSigma") = FNegOne
    /\ ReadField(mem, T, 0, "confidenceThreshold") = FNegOne
    /\ ~InExpectedRange("spatialSigma", ReadField(mem, T, 0, "spatialSigma"))

\* C7: after b = a every member of b equals that of a and a is as it was; and
\* in every state, so in those a copy has produced, an assignment to a member
\* of one object leaves every member of the other unchanged.
C7_ValueCopy ==
    \A src \in Elems, lane \in Lanes :
      \A dst \in Elems \ {src} :
        /\ \A whole \in BOOLEAN :
              LET m == CopyMem(mem, T, src, dst, whole, lane)
              IN  /\ ReadFields(m, T, dst) = ReadFields(mem, T, src)
                  /\ ReadFields(m, T, src) = ReadFields(mem, T, src)
        /\ \A f \in FieldNames(T) :
              \A v \in ValuesOf(FieldType(T, f)) :
                 ReadFields(WriteField(mem, T, dst, f, v, lane), T, src)
                    = ReadFields(mem, T, src)

C7_Witness ==
    /\ T = "QualityMetrics"
    /\ ReadField(mem, T, 0, "noiseLevel") = FNegOne
    /\ ReadField(mem, T, 1, "noiseLevel") = FNegOne
    /\ ReadField(mem, T, 1, "pointDensity") = FNegOne
    /\ ReadField(mem, T, 0, "pointDensity") # FNegOne

\* C8: an assignment to one member of an object leaves its other members
\* unchanged, also when a vector is stored as a full 16-byte vector.
C8_FieldsDisjoint ==
    \A e \in Elems, f \in FieldNames(T), lane \in Lanes :
        \A v \in ValuesOf(FieldType(T, f)) :
            LET m == WriteField(mem, T, e, f, v, lane)
            IN  \A g \in FieldNames(T) \ {f} :
                   ReadField(m, T, e, g) = ReadField(mem, T, e, g)

C8_Witness ==
    /\ T = "MeshVertex"
    /\ widen
    /\ LoadFloat(mem, FieldAddr(T, 0, "position") + 12) = FGarbage
    /\ ReadFields(mem, T, 0) = <<VOne, VOne, FNegOne>>

\* C9: MeshVertex has position at 0, normal at 16, confidence at 32 and is 48
\* bytes; element i of a buffer starts at 48 * i and its confidence is the
\* float at 48 * i + 32.
C9_MeshVertexStride ==
    T = "MeshVertex" =>
        /\ Layout[T].offset["position"] = 0
        /\ Layout[T].offset["normal"] = 16
        /\ Layout[T].offset["confidence"] = 32
        /\ Layout[T].size = 48
        /\ \A i \in Elems :
              /\ ElemBase(T, i) = 48 * i
              /\ ReadField(mem, T, i, "confidence") = LoadFloat(mem, 48 * i + 32)
              /\ \A v \in Floats :
                    LoadFloat(WriteField(mem, T, i, "confidence", v, <<>>), 48 * i + 32) = v

C9_Witness ==
    /\ T = "MeshVertex"
    /\ LoadFloat(mem, 80) = FNegOne
    /\ LoadFloat(mem, 32) # FNegOne

====
